---- MODULE Spec2Model ----
(***************************************************************************)
(* A model of util/table_dto.py (TableDto) and of SignalUtil.normalize     *)
(* from util/signal_util.py.                                               *)
(*                                                                         *)
(* Python values are modelled as follows.                                  *)
(*   - an argument or attribute that may be None is a record               *)
(*     [some |-> BOOLEAN, ...]; some = FALSE is None;                      *)
(*   - the outcome of a call is a record [kind, val, exc, msg, time]:      *)
(*     kind = "return" (val is the value), "None" (the call returned       *)
(*     None) or "raise" (exc is the exception type, msg its message,       *)
(*     time the number formatted into the message);                        *)
(*   - a float is an integer where only its order matters (timestamps,     *)
(*     query times), and a quotient is the pair [num, den]; den = 0 is     *)
(*     the IEEE infinity;                                                  *)
(*   - indices are Python's (0-based); sequences are TLA+'s (1-based).     *)
(***************************************************************************)
EXTENDS Integers, Sequences, FiniteSets, TLC

VARIABLES header, data, len, samplingRate, op, args, res

vars == <<header, data, len, samplingRate, op, args, res>>

table == <<header, data, len, samplingRate>>

-----------------------------------------------------------------------------
(* Bounds of the model *)

MaxRows == 3

MaxTime == 2

MaxLen == 3

MaxAbs == 2

-----------------------------------------------------------------------------
(* Python values *)

TIMESTAMP_STRING == "Timestamp"

Unset == -1

Names == {"Timestamp", "data", "ECG"}

NoHeader == [some |-> FALSE, names |-> <<>>]

NoData == [some |-> FALSE, rows |-> <<>>]

NoRate == [some |-> FALSE, num |-> 0, den |-> 1]

Return(v) == [kind |-> "return", val |-> v, exc |-> "", msg |-> "", time |-> 0]

ReturnNone == [kind |-> "None", val |-> <<>>, exc |-> "", msg |-> "", time |-> 0]

Raise(e, m, t) == [kind |-> "raise", val |-> <<>>, exc |-> e, msg |-> m, time |-> t]

NoResult == [kind |-> "", val |-> <<>>, exc |-> "", msg |-> "", time |-> 0]

NoArgs == [none |-> TRUE]

Range(s) == {s[i] : i \in 1..Len(s)}

Min(a, b) == IF a <= b THEN a ELSE b

Max(a, b) == IF a >= b THEN a ELSE b

Abs(x) == IF x < 0 THEN -x ELSE x

(* min(data) and max(data) of a non-empty sequence *)
SeqMin(s) == CHOOSE x \in Range(s) : \A y \in Range(s) : x <= y

SeqMax(s) == CHOOSE x \in Range(s) : \A y \in Range(s) : x >= y

(* s[start:stop] with Python's handling of negative and out-of-range bounds *)
ClampIndex(i, n) == IF i < 0 THEN Max(i + n, 0) ELSE Min(i, n)

PySlice(s, start, stop) ==
  LET n == Len(s)
      lo == ClampIndex(start, n)
      hi == ClampIndex(stop, n)
  IN  IF lo < hi THEN [k \in 1..(hi - lo) |-> s[lo + k]] ELSE <<>>

(* header.index(columnName): the first position, 0-based *)
HeaderIndex(names, columnName) ==
  (CHOOSE i \in 1..Len(names) :
      /\ names[i] = columnName
      /\ \A j \in 1..(i - 1) : names[j] # columnName) - 1

(* data[:, index] *)
Column(rows, index) == [i \in 1..Len(rows) |-> rows[i][index + 1]]

(* the quotient n / d of the model: d = 0 is handled by the caller *)
Quotient(n, d) == [some |-> TRUE, num |-> n, den |-> d]

Zero == Quotient(0, 1)

Inf == Quotient(1, 0)

-----------------------------------------------------------------------------
(* TableDto: queries.  h, d, n are self.header, self.data and self.len. *)

(* getColumn with length taking precedence over limit: a variant on which  *)
(* the resolution rule of C4 fails                                         *)
getColumnLengthFirst(h, d, n, columnName, offset, limit, length) ==
  IF ~h.some THEN Raise("TypeError", "argument of type 'NoneType' is not iterable", 0)
  ELSE IF columnName \notin Range(h.names) THEN ReturnNone
  ELSE IF limit = -1 /\ length = -1 /\ n = Unset
  THEN Raise("AttributeError", "no attribute 'len'", 0)
  ELSE IF ~d.some THEN Raise("TypeError", "'NoneType' object is not subscriptable", 0)
  ELSE LET lim == IF length # -1 THEN offset + length
                  ELSE IF limit = -1 THEN n ELSE limit
           index == HeaderIndex(h.names, columnName)
       IN  Return(PySlice(Column(d.rows, index), offset, lim))

(* getColumn without the membership test of lines 104-105: header.index    *)
(* raises ValueError for an absent name; a variant on which C5 fails       *)
getColumnNoMembershipTest(h, d, n, columnName, offset, limit, length) ==
  IF ~h.some THEN Raise("TypeError", "'NoneType' object has no attribute 'index'", 0)
  ELSE IF limit = -1 /\ length = -1 /\ n = Unset
  THEN Raise("AttributeError", "no attribute 'len'", 0)
  ELSE IF columnName \notin Range(h.names)
  THEN Raise("ValueError", "is not in list", 0)
  ELSE IF ~d.some THEN Raise("TypeError", "'NoneType' object is not subscriptable", 0)
  ELSE LET lim == IF limit = -1
                  THEN (IF length = -1 THEN n ELSE offset + length)
                  ELSE limit
           index == HeaderIndex(h.names, columnName)
       IN  Return(PySlice(Column(d.rows, index), offset, lim))

(* getColumn (lines 89-114) *)
getColumn(h, d, n, columnName, offset, limit, length) ==
  IF ~h.some THEN Raise("TypeError", "argument of type 'NoneType' is not iterable", 0)
  ELSE IF columnName \notin Range(h.names) THEN ReturnNone
  ELSE IF limit = -1 /\ length = -1 /\ n = Unset
  THEN Raise("AttributeError", "no attribute 'len'", 0)
  ELSE IF ~d.some THEN Raise("TypeError", "'NoneType' object is not subscriptable", 0)
  ELSE LET lim == IF limit = -1
                  THEN (IF length = -1 THEN n ELSE offset + length)
                  ELSE limit
           index == HeaderIndex(h.names, columnName)
       IN  Return(PySlice(Column(d.rows, index), offset, lim))

(* getTime (lines 86-87) *)
getTime(h, d, n, offset, limit, length) ==
  getColumn(h, d, n, TIMESTAMP_STRING, offset, limit, length)

(* _timeInData testing the lower bound only: a variant on which C2 fails   *)
timeInDataLowerOnly(col, time) == SeqMin(col) <= time

(* _timeInData (lines 193-194), for a non-empty sequence *)
timeInData(col, time) == SeqMin(col) <= time /\ time <= SeqMax(col)

(* what min(data) raises before any comparison is made: TypeError for None, *)
(* ValueError for an empty sequence; "return" when min and max exist        *)
timeInDataFails(c) ==
  IF c.kind = "raise" THEN c
  ELSE IF c.kind = "None" THEN Raise("TypeError", "'NoneType' object is not iterable", 0)
  ELSE IF c.val = <<>> THEN Raise("ValueError", "min() arg is an empty sequence", 0)
  ELSE Return(c.val)

(* the message of the range error: 'could not find %f in data' % time;     *)
(* %f prints the number with six decimals, which is exact for the model's  *)
(* times                                                                   *)
CouldNotFind(time) == Raise("ValueError", "could not find %f in data", time)

(* the loop of getTimeIndex comparing with > instead of >=: a variant on   *)
(* which C3 fails                                                          *)
RECURSIVE ScanTimeIndexStrict(_, _, _)
ScanTimeIndexStrict(col, i, fromTime) ==
  IF i >= Len(col) THEN -1
  ELSE IF col[i + 1] > fromTime THEN i
  ELSE ScanTimeIndexStrict(col, i + 1, fromTime)

(* the loop of getTimeIndex (lines 82-84) from 0-based row i on: the first *)
(* i with time >= fromTime, or falling off the end (-1 stands for the      *)
(* implicit None)                                                          *)
RECURSIVE ScanTimeIndex(_, _, _)
ScanTimeIndex(col, i, fromTime) ==
  IF i >= Len(col) THEN -1
  ELSE IF col[i + 1] >= fromTime THEN i
  ELSE ScanTimeIndex(col, i + 1, fromTime)

(* getTimeIndex (lines 68-84) *)
getTimeIndex(h, d, n, fromTime) ==
  LET c == timeInDataFails(getColumn(h, d, n, TIMESTAMP_STRING, 0, -1, -1))
  IN  IF c.kind = "raise" THEN c
      ELSE IF ~timeInData(c.val, fromTime) THEN CouldNotFind(fromTime)
      ELSE LET i == ScanTimeIndex(c.val, 0, fromTime)
           IN  IF i = -1 THEN ReturnNone ELSE Return(i)

(* _switchTime returning its arguments in the order given: a variant on    *)
(* which C8 fails                                                          *)
switchTimeKeepsOrder(time1, time2) == <<time1, time2>>

(* _switchTime (lines 190-191) *)
switchTime(time1, time2) == <<time2, time1>>

(* the loop of getColumnByTime ending at the first row > toTime instead of *)
(* >= toTime: a variant on which C1 fails                                  *)
RECURSIVE ScanByTimeStrict(_, _, _, _, _)
ScanByTimeStrict(col, i, fromTime, toTime, fromIndex) ==
  IF i >= Len(col) THEN <<fromIndex, -1>>
  ELSE LET time == col[i + 1]
           f == IF time >= fromTime /\ fromIndex = -1 THEN i ELSE fromIndex
       IN  IF time > toTime THEN <<f, i>>
           ELSE ScanByTimeStrict(col, i + 1, fromTime, toTime, f)

(* the loop of getColumnByTime with the toTime test (and its break) ahead  *)
(* of the fromTime test: a variant on which C10 fails                      *)
RECURSIVE ScanByTimeBreakFirst(_, _, _, _, _)
ScanByTimeBreakFirst(col, i, fromTime, toTime, fromIndex) ==
  IF i >= Len(col) THEN <<fromIndex, -1>>
  ELSE LET time == col[i + 1]
       IN  IF time >= toTime THEN <<fromIndex, i>>
           ELSE ScanByTimeBreakFirst(col, i + 1, fromTime, toTime,
                   IF time >= fromTime /\ fromIndex = -1 THEN i ELSE fromIndex)

(* the loop of getColumnByTime (lines 142-147) from 0-based row i on;      *)
(* yields <<fromIndex, toIndex>>                                           *)
RECURSIVE ScanByTime(_, _, _, _, _)
ScanByTime(col, i, fromTime, toTime, fromIndex) ==
  IF i >= Len(col) THEN <<fromIndex, -1>>
  ELSE LET time == col[i + 1]
           f == IF time >= fromTime /\ fromIndex = -1 THEN i ELSE fromIndex
       IN  IF time >= toTime THEN <<f, i>>
           ELSE ScanByTime(col, i + 1, fromTime, toTime, f)

(* lines 131-132 *)
OrderedTimes(fromTime, toTime) ==
  IF fromTime > toTime THEN switchTime(fromTime, toTime) ELSE <<fromTime, toTime>>

(* getColumnByTime (lines 116-149) *)
getColumnByTime(h, d, n, columnName, fromTime, toTime) ==
  LET t == OrderedTimes(fromTime, toTime)
      c == timeInDataFails(getColumn(h, d, n, TIMESTAMP_STRING, 0, -1, -1))
  IN  IF c.kind = "raise" THEN c
      ELSE IF ~timeInData(c.val, t[1]) THEN CouldNotFind(t[1])
      ELSE IF ~timeInData(c.val, t[2]) THEN CouldNotFind(t[2])
      ELSE LET ix == ScanByTime(c.val, 0, t[1], t[2], -1)
           IN  getColumn(h, d, n, columnName, ix[1], ix[2], -1)

(* s[i] with Python's negative indices; -1 in kind "raise" is IndexError *)
PyIndex(s, i) ==
  LET k == IF i < 0 THEN i + Len(s) ELSE i
  IN  IF k < 0 \/ k >= Len(s)
      THEN Raise("IndexError", "index out of bounds", 0)
      ELSE Return(s[k + 1])

(* getDuration (lines 152-162) *)
getDuration(h, d, n) ==
  LET c == getTime(h, d, n, 0, -1, -1)
  IN  IF c.kind = "raise" THEN c
      ELSE IF n = Unset THEN Raise("AttributeError", "no attribute 'len'", 0)
      ELSE IF c.kind = "None"
      THEN Raise("TypeError", "'NoneType' object is not subscriptable", 0)
      ELSE LET last == PyIndex(c.val, n - 1)
               first == PyIndex(c.val, 0)
           IN  IF last.kind = "raise" THEN last
               ELSE IF first.kind = "raise" THEN first
               ELSE Return(last.val - first.val)

(* self.len / duration with duration = 0 (line 58): the operands are numpy *)
(* scalars, so the outcome is numpy's: with its default error state the    *)
(* division warns and yields inf, with divide='raise' (or warnings turned  *)
(* into errors) it raises                                                  *)
DivZeroOutcomes == {"inf", "raise"}

(* _calcSamplingRate (lines 48-60); the bare except maps every exception   *)
(* to 0.0                                                                  *)
calcSamplingRate(h, d, n, divZero) ==
  LET duration == getDuration(h, d, n)
  IN  IF duration.kind = "raise" THEN Zero
      ELSE IF duration.val = 0
      THEN (IF divZero = "inf" THEN Inf ELSE Zero)
      ELSE Quotient(n, duration.val)

(* the value of self.len after setData (lines 37-40) *)
setDataLen(d, n) == IF d.some THEN Len(d.rows) ELSE n

(* the value of self.samplingRate after setSamplingRate (lines 42-46) *)
setSamplingRateValue(h, d, n, rate, divZero) ==
  IF rate.some THEN rate ELSE calcSamplingRate(h, d, n, divZero)

-----------------------------------------------------------------------------
(* SignalUtil *)

(* count_nonzero(data) *)
count_nonzero(d) == Cardinality({i \in 1..Len(d) : d[i] # 0})

(* the divisor without abs(min(data)): a variant on which C9 fails         *)
ExtremeMaxOnly(d) == SeqMax(d)

(* line 22: float(max(max(data), abs(min(data)))) *)
Extreme(d) == Max(SeqMax(d), Abs(SeqMin(d)))

(* normalize (lines 11-24): the input itself when no element is nonzero,   *)
(* else the sequence of the quotients data[i] / extreme                    *)
normalize(d) ==
  IF count_nonzero(d) = 0 THEN d
  ELSE [i \in 1..Len(d) |-> Quotient(d[i], Extreme(d))]

-----------------------------------------------------------------------------
(* Inputs *)

TimeVals == 0..MaxTime

(* the sample of the second column in row i: distinct per row, so that a   *)
(* slice shows which rows it holds                                         *)
DataValue(i) == 10 * i

MatrixOf(ts) == [some |-> TRUE, rows |-> [i \in 1..Len(ts) |-> <<ts[i], DataValue(i)>>]]

TimeSeqs == UNION {[1..k -> TimeVals] : k \in 0..MaxRows}

Matrices == {MatrixOf(ts) : ts \in TimeSeqs}

DataArgs == Matrices \cup {NoData}

HeaderOf(names) == [some |-> TRUE, names |-> names]

HeaderArgs ==
  {HeaderOf(<<"Timestamp", "data">>), HeaderOf(<<"data", "Timestamp">>),
   HeaderOf(<<"data", "ECG">>), NoHeader}

Supplied == Quotient(128, 1)

RateArgs == {NoRate, Supplied}

QueryTimes == (-1)..(MaxTime + 1)

(* offset, limit and length of getColumn: the default -1, values inside a  *)
(* table and values past the end of a short one                            *)
Offsets == (-1)..2

Limits == (-1)..3

Lengths == (-1)..2

Signals == UNION {[1..k -> (-MaxAbs)..MaxAbs] : k \in 0..MaxLen}

-----------------------------------------------------------------------------
(* The state machine.  A call is one step: it records the operation, its   *)
(* arguments and its outcome; Returned hands control back to the caller.   *)

(* __init__ (lines 21-32) *)
Construct(h, d, rate, divZero) ==
  /\ header = h
  /\ data = d
  /\ len = setDataLen(d, Unset)
  /\ samplingRate = setSamplingRateValue(h, d, setDataLen(d, Unset), rate, divZero)
  /\ op = "init"
  /\ args = [samplingRate |-> rate]
  /\ res = NoResult

Init ==
  \E h \in HeaderArgs, d \in DataArgs, rate \in RateArgs, divZero \in DivZeroOutcomes :
      Construct(h, d, rate, divZero)

InitSupplied ==
  \E h \in HeaderArgs, d \in DataArgs : Construct(h, d, Supplied, "inf")

InitDefault == Construct(NoHeader, NoData, NoRate, "inf")

Idle == op = "idle"

Returned ==
  /\ op # "idle"
  /\ op' = "idle"
  /\ args' = NoArgs
  /\ res' = NoResult
  /\ UNCHANGED table

(* setHeader (lines 34-35) *)
SetHeader ==
  \E h \in HeaderArgs :
      /\ Idle
      /\ header' = h
      /\ op' = "setHeader"
      /\ args' = [header |-> h]
      /\ res' = NoResult
      /\ UNCHANGED <<data, len, samplingRate>>

(* setData recomputing the sampling rate as the constructor does: a       *)
(* variant on which C7 fails                                               *)
SetDataRecomputes ==
  \E d \in DataArgs, divZero \in DivZeroOutcomes :
      /\ Idle
      /\ data' = d
      /\ len' = setDataLen(d, len)
      /\ samplingRate' = calcSamplingRate(header, d, setDataLen(d, len), divZero)
      /\ op' = "setData"
      /\ args' = [data |-> d]
      /\ res' = NoResult
      /\ UNCHANGED header

(* setData (lines 37-40) *)
SetData ==
  \E d \in DataArgs :
      /\ Idle
      /\ data' = d
      /\ len' = setDataLen(d, len)
      /\ op' = "setData"
      /\ args' = [data |-> d]
      /\ res' = NoResult
      /\ UNCHANGED <<header, samplingRate>>

(* setSamplingRate (lines 42-46) *)
SetSamplingRate ==
  \E rate \in RateArgs, divZero \in DivZeroOutcomes :
      /\ Idle
      /\ samplingRate' = setSamplingRateValue(header, data, len, rate, divZero)
      /\ op' = "setSamplingRate"
      /\ args' = [samplingRate |-> rate]
      /\ res' = NoResult
      /\ UNCHANGED <<header, data, len>>

(* getSamplingRate (lines 164-165) *)
GetSamplingRate ==
  /\ Idle
  /\ op' = "getSamplingRate"
  /\ args' = NoArgs
  /\ res' = Return(samplingRate)
  /\ UNCHANGED table

(* getDuration (lines 152-162) *)
GetDuration ==
  /\ Idle
  /\ op' = "getDuration"
  /\ args' = NoArgs
  /\ res' = getDuration(header, data, len)
  /\ UNCHANGED table

(* getColumn (lines 89-114) *)
GetColumn ==
  \E columnName \in Names, offset \in Offsets, limit \in Limits, length \in Lengths :
      /\ Idle
      /\ op' = "getColumn"
      /\ args' = [columnName |-> columnName, offset |-> offset,
                  limit |-> limit, length |-> length]
      /\ res' = getColumn(header, data, len, columnName, offset, limit, length)
      /\ UNCHANGED table

(* getTimeIndex (lines 68-84) *)
GetTimeIndex ==
  \E fromTime \in QueryTimes :
      /\ Idle
      /\ op' = "getTimeIndex"
      /\ args' = [fromTime |-> fromTime]
      /\ res' = getTimeIndex(header, data, len, fromTime)
      /\ UNCHANGED table

(* getColumnByTime (lines 116-149) *)
GetColumnByTime ==
  \E columnName \in Names, fromTime \in QueryTimes, toTime \in QueryTimes :
      /\ Idle
      /\ op' = "getColumnByTime"
      /\ args' = [columnName |-> columnName, fromTime |-> fromTime, toTime |-> toTime]
      /\ res' = getColumnByTime(header, data, len, columnName, fromTime, toTime)
      /\ UNCHANGED table

(* normalize (lines 11-24) *)
Normalize ==
  \E d \in Signals :
      /\ Idle
      /\ op' = "normalize"
      /\ args' = [data |-> d]
      /\ res' = Return(normalize(d))
      /\ UNCHANGED table

(* the table's lifecycle: construction with any arguments, then setters    *)
NextTable ==
  \/ SetHeader
  \/ SetData
  \/ SetSamplingRate
  \/ GetSamplingRate
  \/ GetDuration
  \/ Returned

SpecTable == Init /\ [][NextTable]_vars

(* the column and time queries on every table the setters can produce      *)
Next ==
  \/ SetHeader
  \/ SetData
  \/ GetColumn
  \/ GetTimeIndex
  \/ GetColumnByTime
  \/ Returned

Spec == InitSupplied /\ [][Next]_vars

(* the signal utility, which has no state *)
NextSignal ==
  \/ Normalize
  \/ Returned

SpecSignal == InitDefault /\ [][NextSignal]_vars

-----------------------------------------------------------------------------
(* Vocabulary of the properties *)

HasHeader(name) == header.some /\ name \in Range(header.names)

(* the table has a Timestamp column with at least one row, so that its     *)
(* minimum and maximum exist                                               *)
HasTimes == HasHeader(TIMESTAMP_STRING) /\ data.some /\ Len(data.rows) > 0

ColumnOf(name) == Column(data.rows, HeaderIndex(header.names, name))

Times == ColumnOf(TIMESTAMP_STRING)

NonDecreasing(s) == \A i \in 1..(Len(s) - 1) : s[i] <= s[i + 1]

InRange(t) == SeqMin(Times) <= t /\ t <= SeqMax(Times)

(* the least 0-based row index whose timestamp is >= t *)
IsFirstAtLeast(i, t) ==
  /\ i \in 0..(Len(Times) - 1)
  /\ Times[i + 1] >= t
  /\ \A j \in 0..(i - 1) : Times[j + 1] < t

FirstAtLeast(t) == CHOOSE i \in 0..(Len(Times) - 1) : IsFirstAtLeast(i, t)

(* the values of col at the 0-based rows i, ..., j - 1 *)
RowsOf(col, i, j) == [k \in 1..(j - i) |-> col[i + k]]

-----------------------------------------------------------------------------
(* C1: getColumnByTime(name, fromTime, toTime), for a name in the header, a *)
(* non-decreasing Timestamp column and fromTime <= toTime both inside      *)
(* [min(timestamp), max(timestamp)], returns the values of the column at   *)
(* the rows [i, j), i the least row with timestamp >= fromTime and j the   *)
(* least row with timestamp >= toTime: the result of getColumn(name, i, j) *)
C1_Case ==
  /\ op = "getColumnByTime"
  /\ HasTimes
  /\ HasHeader(args.columnName)
  /\ NonDecreasing(Times)
  /\ args.fromTime <= args.toTime
  /\ InRange(args.fromTime)
  /\ InRange(args.toTime)

C1_ColumnByTimeIsRowRange ==
  C1_Case =>
    LET i == FirstAtLeast(args.fromTime)
        j == FirstAtLeast(args.toTime)
    IN  /\ res = Return(RowsOf(ColumnOf(args.columnName), i, j))
        /\ res = getColumn(header, data, len, args.columnName, i, j, -1)

C1_Witness ==
  /\ C1_Case
  /\ args.fromTime < args.toTime
  /\ FirstAtLeast(args.fromTime) >= 1
  /\ res.kind = "return"
  /\ Len(res.val) >= 1

(* C2: getTimeIndex(fromTime) raises ValueError carrying fromTime whenever *)
(* fromTime is below the minimum or above the maximum timestamp, and       *)
(* getColumnByTime raises ValueError carrying an offending bound whenever  *)
(* either bound lies outside [min(timestamp), max(timestamp)]; nothing is  *)
(* returned                                                                *)
IsRangeError(r, t) ==
  /\ r.kind = "raise"
  /\ r.exc = "ValueError"
  /\ r.msg = "could not find %f in data"
  /\ r.time = t
  /\ ~InRange(t)

C3_Case == op = "getTimeIndex" /\ HasTimes /\ InRange(args.fromTime)

C3_TimeIndexIsFirstAtLeast ==
  C3_Case =>
    /\ res.kind = "return"
    /\ res.val \in 0..(len - 1)
    /\ IsFirstAtLeast(res.val, args.fromTime)

C3_Witness ==
  /\ C3_Case
  /\ res.kind = "return"
  /\ res.val >= 1
  /\ Times[res.val + 1] > args.fromTime

(* C4: getColumn(name, offset, limit, length), for a name in the header,   *)
(* returns column[offset:resolved], where resolved is limit when limit is  *)
(* given (not the default -1; length is then ignored), else offset +       *)
(* length when length # -1, else the row count                             *)
C4_Case == op = "getColumn" /\ HasHeader(args.columnName) /\ data.some

C5_AbsentColumnIsNone ==
  [][(op' = "getColumn" /\ header.some /\ args'.columnName \notin Range(header.names))
        => (res' = ReturnNone /\ UNCHANGED table)]_vars

C5_Witness ==
  /\ op = "getColumn"
  /\ header.some
  /\ args.columnName \notin Range(header.names)
  /\ data.some
  /\ Len(data.rows) >= 1
  /\ args.length # -1
  /\ res.kind = "None"

(* C6: with no sampling rate supplied, the sampling rate after             *)
(* construction is rowCount / duration when the duration is nonzero and    *)
(* 0.0 otherwise (no rows, one row, or any other zero duration)            *)
C6_DefaultSamplingRate ==
  (op = "init" /\ ~args.samplingRate.some) =>
    LET duration == getDuration(header, data, len)
    IN  IF duration.kind = "return" /\ duration.val # 0
        THEN samplingRate = Quotient(len, duration.val)
        ELSE samplingRate = Zero

(* C7: setData(d) with a matrix d makes the cached row count the number of *)
(* rows of d and keeps the sampling rate; setHeader keeps the row count    *)
(* and the sampling rate; getSamplingRate returns the rate so kept, the    *)
(* one the constructor or the last setSamplingRate established             *)
C7_SettersKeepSamplingRate ==
  [][/\ (op' = "setData" /\ args'.data.some)
          => (len' = Len(args'.data.rows) /\ samplingRate' = samplingRate)
     /\ op' = "setData" => samplingRate' = samplingRate
     /\ op' = "setHeader" => (len' = len /\ samplingRate' = samplingRate)
     /\ op' = "getSamplingRate"
          => (res' = Return(samplingRate) /\ samplingRate' = samplingRate)]_vars

C7_Witness ==
  /\ op = "setData"
  /\ args.data.some
  /\ HasTimes
  /\ len = Len(data.rows)
  /\ samplingRate # Supplied
  /\ samplingRate.num >= 1
  /\ samplingRate.den \notin {0, Times[len] - Times[1]}
  /\ samplingRate.num # len

(* C8: getColumnByTime(name, a, b) and getColumnByTime(name, b, a) have    *)
(* the same outcome: the same slice, or the same error                     *)
C8_ColumnByTimeSymmetric ==
  op = "getColumnByTime" =>
    res = getColumnByTime(header, data, len, args.columnName, args.toTime, args.fromTime)

C8_Witness ==
  /\ op = "getColumnByTime"
  /\ args.fromTime > args.toTime
  /\ res.kind = "return"
  /\ Len(res.val) >= 1

(* C9: for a non-empty d, normalize(d) is d itself when every element is   *)
(* zero, and otherwise every element divided by                            *)
(* max(max(d), abs(min(d))), a positive divisor, each quotient within      *)
(* [-1, 1]                                                                 *)
C9_Case == op = "normalize" /\ args.data # <<>>

C9_NormalizeWithinUnit ==
  C9_Case =>
    LET d == args.data
    IN  IF \A i \in 1..Len(d) : d[i] = 0
        THEN res = Return(d)
        ELSE /\ res.kind = "return"
             /\ Len(res.val) = Len(d)
             /\ \A i \in 1..Len(d) :
                   /\ res.val[i].num = d[i]
                   /\ res.val[i].den = Max(SeqMax(d), Abs(SeqMin(d)))
                   /\ res.val[i].den > 0
                   /\ -res.val[i].den <= res.val[i].num
                   /\ res.val[i].num <= res.val[i].den

C9_Witness ==
  /\ C9_Case
  /\ Len(args.data) >= 2
  /\ SeqMax(args.data) > 0
  /\ -SeqMin(args.data) > SeqMax(args.data)
  /\ \E i \in 1..Len(args.data) : res.val[i].num = -res.val[i].den

(* C10: whenever getColumnByTime passes its two range checks, for any      *)
(* Timestamp column, the scan ends with 0 <= fromIndex <= toIndex <=       *)
(* rowCount - 1 (neither is left at -1), and the slice returned for a      *)
(* column of the header holds the toIndex - fromIndex values of the rows   *)
(* fromIndex, ..., toIndex - 1, so never the last row                      *)
C10_Case ==
  /\ op = "getColumnByTime"
  /\ HasTimes
  /\ InRange(args.fromTime)
  /\ InRange(args.toTime)

C10_ScanIndicesAssigned ==
  C10_Case =>
    LET t == OrderedTimes(args.fromTime, args.toTime)
        ix == ScanByTime(Times, 0, t[1], t[2], -1)
    IN  /\ 0 <= ix[1]
        /\ ix[1] <= ix[2]
        /\ ix[2] <= len - 1
        /\ HasHeader(args.columnName) =>
              /\ res.kind = "return"
              /\ Len(res.val) = ix[2] - ix[1]
              /\ res.val = RowsOf(ColumnOf(args.columnName), ix[1], ix[2])

C10_Witness ==
  /\ C10_Case
  /\ ~NonDecreasing(Times)
  /\ HasHeader(args.columnName)
  /\ res.kind = "return"
  /\ Len(res.val) >= 2

====
